---------------------------- MODULE Spec2Model ----------------------------
(***************************************************************************)
(* Model of magiclick (src/main.go): the Game state, the Update tick       *)
(* (mouse handling, mana accrual, indicator rotation) and Draw.            *)
(*                                                                         *)
(* Number representation.  The float64 fields are kept in fixed point:     *)
(*   mana, cost, totalMultiplier, manaMultiplier : hundredths (One = 1.00) *)
(*   speedPerLevel                               : hundredths of a turn/s  *)
(*   rotationAngles : units of 2*Pi/(One*TicksPerSecond), so that the      *)
(*                    per-tick increment speedPerLevel*level*2*Pi/60 is    *)
(*                    the integer speedPerLevel*level and 2*Pi is TwoPi.   *)
(* A product that is not a whole number of hundredths is rounded to the    *)
(* nearest one (ties to even), as a float64 product is rounded to the      *)
(* nearest representable value.                                            *)
(***************************************************************************)
EXTENDS Integers, Sequences, FiniteSets, TLC

VARIABLES
    mana,             \* Game.mana
    generators,       \* Game.generators: [0..3 -> [cost, speedPerLevel, level, manaMultiplier]]
    rotationAngles,   \* Game.rotationAngles: [0..3 -> angle]
    tickCounter,      \* Game.tickCounter
    totalMultiplier,  \* Game.totalMultiplier (cached product)
    mouseDown,        \* left button state seen by the previous Update (inpututil)
    attempt,          \* generator handleGeneratorClicks was asked to level up in
                      \* this Update (-1: none); forgotten once the tick proceeds
    pc,               \* position of the game loop: "input", "mana", "rotate", "draw"
    ticks,            \* number of Update calls completed since NewGame
    screen            \* what the last Draw painted

game == <<mana, generators, rotationAngles, tickCounter, totalMultiplier>>
vars == <<mana, generators, rotationAngles, tickCounter, totalMultiplier,
          mouseDown, attempt, pc, ticks, screen>>

----------------------------------------------------------------------------
(* Program constants *)

One == 10 * 10                    \* 1.00 in hundredths
screenWidth == 1920
screenHeight == 1080
NumGenerators == 4
MaxLevel == 100
TicksPerSecond == 60
MultiplierStep == 1               \* 0.01
TwoPi == One * TicksPerSecond     \* one full turn in angle units
ZoneWidth == 370
ZoneHeight == 130
ZoneLeft == 30
ZoneTop == 120
ZoneRightInset == 400
ZoneBottomInset == 200

Gens == 0 .. (NumGenerators - 1)

----------------------------------------------------------------------------
(* Bounds of the exploration *)

IdleTicks == 1200   \* Updates explored while no purchase has been made
PlayTicks == 300    \* Updates explored once a purchase has been made
LateTicks == 8      \* Updates explored from the late-game state
LivePlayTicks == 181  \* Updates of a fair run in which the player may click
LiveTicks == 28000    \* Updates of a fair run

----------------------------------------------------------------------------
(* Fixed-point arithmetic *)

\* n / d rounded to the nearest integer, ties to even (n >= 0, d > 0)
RoundDiv(n, d) ==
    LET q == n \div d
        r == n % d
    IN  IF 2 * r > d \/ (2 * r = d /\ q % 2 = 1) THEN q + 1 ELSE q

\* a * n / d rounded to the nearest integer (a >= 0), without forming a * n
MulDiv(a, n, d) == (a \div d) * n + RoundDiv((a % d) * n, d)

----------------------------------------------------------------------------
(* NewGame *)

NewGenerators ==
    [i \in Gens |->
        CASE i = 0 -> [cost |-> 3 * One,    speedPerLevel |-> 10, level |-> 5, manaMultiplier |-> One]
          [] i = 1 -> [cost |-> 50 * One,   speedPerLevel |-> 8,  level |-> 0, manaMultiplier |-> One]
          [] i = 2 -> [cost |-> 250 * One,  speedPerLevel |-> 5,  level |-> 0, manaMultiplier |-> One]
          [] i = 3 -> [cost |-> 1000 * One, speedPerLevel |-> 2,  level |-> 0, manaMultiplier |-> One]]

\* the product of all mana multipliers, multiplied in slice order from 1.0
RECURSIVE MultiplierProduct(_, _, _)
MultiplierProduct(gs, i, acc) ==
    IF i = NumGenerators THEN acc
    ELSE MultiplierProduct(gs, i + 1, MulDiv(acc, gs[i].manaMultiplier, One))

\* calculateManaPerSec starting the product from 0
calculateManaPerSecFromZero(gs) == MultiplierProduct(gs, 0, 0)

\* the value calculateManaPerSec stores in totalMultiplier
calculateManaPerSec(gs) == MultiplierProduct(gs, 0, One)


NewGame ==
    [mana            |-> 0,
     generators      |-> NewGenerators,
     rotationAngles  |-> [i \in Gens |-> 0],
     tickCounter     |-> 0,
     totalMultiplier |-> calculateManaPerSec(NewGenerators)]

----------------------------------------------------------------------------
(* handleGeneratorClicks *)

\* top-left corner of generator i's text area
textX(i) == IF i \in {0, 2} THEN ZoneLeft ELSE screenWidth - ZoneRightInset
textY(i) == IF i \in {0, 1} THEN ZoneTop ELSE screenHeight - ZoneBottomInset

InZone(i, x, y) ==
    /\ x >= textX(i) /\ x <= textX(i) + ZoneWidth
    /\ y >= textY(i) /\ y <= textY(i) + ZoneHeight

\* the generator whose area the loop finds first (it breaks there), or -1
FirstHit(x, y) ==
    LET hits == {i \in Gens : InZone(i, x, y)}
    IN  IF hits = {} THEN -1 ELSE CHOOSE i \in hits : \A j \in hits : i <= j

\* CanPurchase with || for &&
CanPurchaseEither(i) ==
    \/ mana >= generators[i].cost
    \/ generators[i].level < MaxLevel

\* CanPurchase without the mana test
CanPurchaseNoFunds(i) == generators[i].level < MaxLevel

\* CanPurchase without the max-level test
CanPurchaseNoCap(i) == mana >= generators[i].cost

\* the two nested conditions guarding a level-up
CanPurchase(i) ==
    /\ mana >= generators[i].cost
    /\ generators[i].level < MaxLevel

\* scalingFactor with the Mana Crystal's slower scaling forgotten
scalingFactorUniform(i) == 120

\* cost scaling per generator, in hundredths
scalingFactor(i) == IF i = 0 THEN 115 ELSE 120

\* NextCost dividing by the factor
NextCostShrinking(i, c) == MulDiv(c, One, scalingFactor(i))

\* the cost of the next level-up
NextCost(i, c) == MulDiv(c, scalingFactor(i), One)

\* Purchase that leaves the cost increase undone
PurchaseWithoutCost(i) ==
    LET levelled == [generators EXCEPT ![i].level = @ + 1]
    IN  /\ mana' = mana - generators[i].cost
        /\ totalMultiplier' = calculateManaPerSec(levelled)
        /\ generators' = levelled
        /\ UNCHANGED <<rotationAngles, tickCounter>>

\* Purchase that restarts the indicator of the generator it levels up
PurchaseRestartingAngle(i) ==
    LET levelled == [generators EXCEPT ![i].level = @ + 1]
    IN  /\ mana' = mana - generators[i].cost
        /\ totalMultiplier' = calculateManaPerSec(levelled)
        /\ generators' = [levelled EXCEPT ![i].cost = NextCost(i, @)]
        /\ rotationAngles' = [rotationAngles EXCEPT ![i] = 0]
        /\ UNCHANGED tickCounter

\* Purchase without the recalculation of the total
PurchaseWithoutRecalc(i) ==
    LET levelled == [generators EXCEPT ![i].level = @ + 1]
    IN  /\ mana' = mana - generators[i].cost
        /\ generators' = [levelled EXCEPT ![i].cost = NextCost(i, @)]
        /\ UNCHANGED <<rotationAngles, tickCounter, totalMultiplier>>

\* the body of the level-up
Purchase(i) ==
    LET levelled == [generators EXCEPT ![i].level = @ + 1]
    IN  /\ mana' = mana - generators[i].cost
        /\ totalMultiplier' = calculateManaPerSec(levelled)
        /\ generators' = [levelled EXCEPT ![i].cost = NextCost(i, @)]
        /\ UNCHANGED <<rotationAngles, tickCounter>>

handleGeneratorClicks(x, y) ==
    LET i == FirstHit(x, y)
    IN  /\ attempt' = i
        /\ IF i # -1 /\ CanPurchase(i)
           THEN Purchase(i)
           ELSE UNCHANGED game

----------------------------------------------------------------------------
(* Update, in the order of its statements *)

\* cursor positions the player can click: the corners of the four areas,
\* points just outside them, and the centre of the screen
Cursors ==
    {<<30, 120>>, <<400, 250>>, <<29, 120>>, <<401, 250>>, <<30, 251>>,
     <<1520, 120>>, <<1890, 250>>, <<1519, 120>>, <<1891, 250>>,
     <<30, 880>>, <<400, 1010>>, <<400, 879>>,
     <<1520, 880>>, <<1890, 1010>>, <<1890, 1011>>,
     <<960, 540>>}

\* no level-up has been bought since NewGame
Pristine == \A i \in Gens : generators[i].level = NewGenerators[i].level

\* UpdateInput testing that the button is down, not that it went down
UpdateInputWhilePressed(down, x, y) ==
    /\ pc = "input"
    /\ mouseDown' = down
    /\ IF down
       THEN handleGeneratorClicks(x, y)
       ELSE attempt' = -1 /\ UNCHANGED game
    /\ pc' = "mana"
    /\ UNCHANGED <<ticks, screen>>

\* mouse handling: IsMouseButtonJustPressed is true on the tick the button
\* goes from up to down
UpdateInput(down, x, y) ==
    /\ pc = "input"
    /\ mouseDown' = down
    /\ IF down /\ ~mouseDown
       THEN handleGeneratorClicks(x, y)
       ELSE attempt' = -1 /\ UNCHANGED game
    /\ pc' = "mana"
    /\ UNCHANGED <<ticks, screen>>

\* SecondElapsed with > for >=
SecondElapsedLate(counter) == counter > TicksPerSecond

\* the test that a second's worth of ticks has been counted
SecondElapsed(counter) == counter >= TicksPerSecond

\* UpdateMana producing the cached total without recalculating it
UpdateManaCached ==
    /\ pc = "mana"
    /\ IF SecondElapsed(tickCounter + 1)
       THEN /\ mana' = IF totalMultiplier > 0 THEN mana + totalMultiplier ELSE mana
            /\ tickCounter' = 0
            /\ UNCHANGED totalMultiplier
       ELSE /\ tickCounter' = tickCounter + 1
            /\ UNCHANGED <<mana, totalMultiplier>>
    /\ attempt' = -1
    /\ pc' = "rotate"
    /\ UNCHANGED <<generators, rotationAngles, mouseDown, ticks, screen>>

\* mana production, once tickCounter reaches a second
UpdateMana ==
    /\ pc = "mana"
    /\ IF SecondElapsed(tickCounter + 1)
       THEN LET total == calculateManaPerSec(generators)
            IN  /\ totalMultiplier' = total
                /\ mana' = IF total > 0 THEN mana + total ELSE mana
                /\ tickCounter' = 0
       ELSE /\ tickCounter' = tickCounter + 1
            /\ UNCHANGED <<mana, totalMultiplier>>
    /\ attempt' = -1
    /\ pc' = "rotate"
    /\ UNCHANGED <<generators, rotationAngles, mouseDown, ticks, screen>>

\* speed of generator g in turns per second (hundredths)
totalSpeed(g) == g.speedPerLevel * g.level

\* radians per tick of generator g: totalSpeed * 2*Pi / 60 in angle units
rotationSpeed(g) == totalSpeed(g)

\* Crossed with > for >=
CrossedStrictly(oldAngle, newAngle) == oldAngle < TwoPi /\ newAngle > TwoPi

\* the test for a completed rotation
Crossed(oldAngle, newAngle) == oldAngle < TwoPi /\ newAngle >= TwoPi

\* Wrap with > for >=
WrapStrictly(a) == IF a > TwoPi THEN a - TwoPi ELSE a

\* the reset of an angle that exceeds 2*Pi
Wrap(a) == IF a >= TwoPi THEN a - TwoPi ELSE a

\* UpdateRotation crediting a completed rotation to every generator
UpdateRotationShared ==
    /\ pc = "rotate"
    /\ rotationAngles' =
         [i \in Gens |->
            IF generators[i].level > 0
            THEN Wrap(rotationAngles[i] + rotationSpeed(generators[i]))
            ELSE rotationAngles[i]]
    /\ generators' =
         [i \in Gens |->
            IF \E j \in Gens :
                  /\ generators[j].level > 0
                  /\ Crossed(rotationAngles[j],
                             rotationAngles[j] + rotationSpeed(generators[j]))
            THEN [generators[i] EXCEPT !.manaMultiplier = @ + MultiplierStep]
            ELSE generators[i]]
    /\ ticks' = ticks + 1
    /\ pc' = "draw"
    /\ UNCHANGED <<mana, tickCounter, totalMultiplier, mouseDown, attempt, screen>>

\* the loop over the generators
UpdateRotation ==
    /\ pc = "rotate"
    /\ rotationAngles' =
         [i \in Gens |->
            IF generators[i].level > 0
            THEN Wrap(rotationAngles[i] + rotationSpeed(generators[i]))
            ELSE rotationAngles[i]]
    /\ generators' =
         [i \in Gens |->
            IF /\ generators[i].level > 0
               /\ Crossed(rotationAngles[i],
                          rotationAngles[i] + rotationSpeed(generators[i]))
            THEN [generators[i] EXCEPT !.manaMultiplier = @ + MultiplierStep]
            ELSE generators[i]]
    /\ ticks' = ticks + 1
    /\ pc' = "draw"
    /\ UNCHANGED <<mana, tickCounter, totalMultiplier, mouseDown, attempt, screen>>

----------------------------------------------------------------------------
(* Draw *)

\* fmt.Sprintf("%.2f", v): sign, integer part, two decimals
Fmt2(v) ==
    IF v < 0 THEN <<"-", (-v) \div One, (-v) % One>>
    ELSE <<"", v \div One, v % One>>

Render ==
    [manaText      |-> Fmt2(mana),
     multiplierStr |-> <<[i \in Gens |-> Fmt2(generators[i].manaMultiplier)],
                         Fmt2(totalMultiplier)>>,
     nameText      |-> [i \in Gens |-> generators[i].level],
     costText      |-> [i \in Gens |-> <<Fmt2(generators[i].cost),
                                         Fmt2(generators[i].speedPerLevel)>>],
     speedText     |-> [i \in Gens |-> Fmt2(totalSpeed(generators[i]))],
     indicators    |-> [i \in Gens |->
                          IF generators[i].level > 0
                          THEN <<rotationAngles[i]>> ELSE <<>>]]

\* Paint that refreshes the cached total for the text it shows
PaintRecomputing ==
    /\ totalMultiplier' = calculateManaPerSec(generators)
    /\ screen' = <<Render>>
    /\ UNCHANGED <<mana, generators, rotationAngles, tickCounter,
                   mouseDown, attempt, ticks>>

\* the body of Draw: the texts and indicators it builds from the game
Paint ==
    /\ screen' = <<Render>>
    /\ UNCHANGED <<game, mouseDown, attempt, ticks>>

\* the frame drawn after an Update
Draw ==
    /\ pc = "draw"
    /\ Paint
    /\ pc' = "input"

\* a further frame drawn before the next Update
Redraw ==
    /\ pc = "input"
    /\ screen # <<>>
    /\ Paint
    /\ pc' = pc

----------------------------------------------------------------------------
(* Specification *)

\* The state NewGame reaches after 1,125,418 Updates in which the player
\* levels the Mana Crystal up whenever it is affordable until level 99 and
\* then waits: two Updates before the accrual that makes the next two
\* level-ups affordable together.  Exploring from it explores the suffix
\* of that behaviour.
LateGame ==
    [mana            |-> 328456518,
     generators      |-> [NewGenerators EXCEPT ![0].level = 99,
                                               ![0].cost = 152789580,
                                               ![0].manaMultiplier = 158466],
     rotationAngles  |-> [i \in Gens |-> IF i = 0 THEN 420 ELSE 0],
     tickCounter     |-> 58,
     totalMultiplier |-> 158456,
     ticks           |-> 1125418]

InitNew ==
    /\ mana = NewGame.mana
    /\ generators = NewGame.generators
    /\ rotationAngles = NewGame.rotationAngles
    /\ tickCounter = NewGame.tickCounter
    /\ totalMultiplier = NewGame.totalMultiplier
    /\ mouseDown = FALSE
    /\ attempt = -1
    /\ pc = "input"
    /\ ticks = 0
    /\ screen = <<>>

InitLate ==
    /\ mana = LateGame.mana
    /\ generators = LateGame.generators
    /\ rotationAngles = LateGame.rotationAngles
    /\ tickCounter = LateGame.tickCounter
    /\ totalMultiplier = LateGame.totalMultiplier
    /\ mouseDown = FALSE
    /\ attempt = -1
    /\ pc = "input"
    /\ ticks = LateGame.ticks
    /\ screen = <<Render>>

Init == InitNew

\* the Updates the exploration follows
WithinBounds ==
    \/ ticks < PlayTicks
    \/ Pristine /\ ticks < IdleTicks
    \/ ticks >= LateGame.ticks /\ ticks < LateGame.ticks + LateTicks

Next ==
    \/ \E down \in BOOLEAN, c \in Cursors :
          WithinBounds /\ UpdateInput(down, c[1], c[2])
    \/ UpdateMana
    \/ UpdateRotation
    \/ Draw
    \/ Redraw

\* from NewGame
Spec == Init /\ [][Next]_vars

\* from NewGame and from the late-game state
LateSpec == (InitNew \/ InitLate) /\ [][Next]_vars

\* The player may click during the first LivePlayTicks Updates and in the
\* late game, and then leaves the mouse alone.
Playing ==
    \/ ticks < LivePlayTicks
    \/ ticks >= LateGame.ticks /\ ticks < LateGame.ticks + LateTicks

LiveNext ==
    \/ \E down \in BOOLEAN, c \in Cursors :
          Playing /\ UpdateInput(down, c[1], c[2])
    \/ ~Playing /\ ticks < LiveTicks /\ UpdateInput(FALSE, 0, 0)
    \/ UpdateMana
    \/ UpdateRotation
    \/ Draw
    \/ Redraw

\* ebiten's loop keeps calling Update and Draw
LiveSpec == (InitNew \/ InitLate) /\ [][LiveNext]_vars /\ WF_vars(LiveNext)

\* The player of LateGame's description: under ReplaySpec the invariant
\* LateReached holds and the state it describes is reached.
Replay ==
    \/ /\ ticks < LateGame.ticks
       /\ UpdateInput(/\ generators[0].level < 99
                      /\ mana >= generators[0].cost
                      /\ ~mouseDown,
                      ZoneLeft, ZoneTop)
    \/ UpdateMana
    \/ UpdateRotation
    \/ Draw

ReplaySpec == InitNew /\ [][Replay]_vars

LateReached == (ticks = LateGame.ticks /\ pc = "input") => InitLate

----------------------------------------------------------------------------
(* Claims *)

\* purchase(i) is refused: not enough mana, or the generator is at max level
Ineligible(i) ==
    \/ mana < generators[i].cost
    \/ generators[i].level >= MaxLevel

\* this step is the purchase(i) call of an Update
PurchaseCall(i) == pc = "input" /\ attempt' = i

\* C1: after every advance() call (a completed Update) and after every
\* purchase(i) call, the cached totalMultiplier equals the product of the
\* four manaMultipliers.
C1_TotalIsProduct ==
    (pc = "draw" \/ (pc = "mana" /\ attempt # -1))
        => totalMultiplier = calculateManaPerSec(generators)

\* C2: an ineligible purchase(i) (mana < cost[i] or level[i] >= 100) leaves
\* mana, every generator, every rotation angle, the tick accumulator and
\* totalMultiplier unchanged.
C2_IneligibleNoOp ==
    [][\A i \in Gens :
          (PurchaseCall(i) /\ Ineligible(i)) => UNCHANGED game]_vars

\* a purchase of the Mana Crystal was refused at max level although the
\* mana covered its cost
C2_Witness ==
    /\ pc = "mana" /\ attempt = 0
    /\ generators[0].level = MaxLevel
    /\ mana >= generators[0].cost

\* cost c became d by the growth factor of generator i (1.15 or 1.20), to
\* within half a hundredth: |100*(d - c) - (f - 100)*c| <= 50, divided by 5
GrewBy(i, c, d) ==
    LET fifths == IF i = 0 THEN 3 ELSE 4
    IN  20 * (d - c) - fifths * c \in -10 .. 10

\* C3: a successful purchase(i) subtracts cost[i] from mana, adds 1 to
\* level[i] and multiplies cost[i] by 1.15 (generator 0) or 1.20 (1..3).
C3_PurchaseEffect ==
    [][\A i \in Gens :
          (PurchaseCall(i) /\ ~Ineligible(i)) =>
              /\ mana' = mana - generators[i].cost
              /\ generators'[i].level = generators[i].level + 1
              /\ GrewBy(i, generators[i].cost, generators'[i].cost)]_vars

\* the Mana Crystal was bought at cost 3.00, level 5: level 6, cost 3.45
C3_Witness ==
    /\ pc = "mana" /\ attempt = 0
    /\ generators[0].level = 6
    /\ generators[0].cost = 345

\* C4: mana is never negative.
C4_ManaNonNegative == mana >= 0

\* a purchase has just spent all the mana but 0.01
C4_Witness ==
    /\ pc = "mana" /\ attempt = 0
    /\ generators[0].level > NewGenerators[0].level
    /\ mana = 1

BetweenUpdates == pc \in {"draw", "input"}

\* C6: from NewGame with no purchase, after exactly 60 advance() calls
\* mana is 1.00 and the tick accumulator is 0; after fewer than 60 calls
\* mana is still 0.
C6_FirstSecond ==
    (Pristine /\ BetweenUpdates) =>
        /\ ticks < 60 => mana = 0
        /\ ticks = 60 => mana = One /\ tickCounter = 0

\* the 60th Update has just returned
C6_Witness == Pristine /\ pc = "draw" /\ ticks = 60 /\ mana = One

\* generator i completes a rotation in the rotation step taken from here
Crossing(i) ==
    /\ pc = "rotate"
    /\ generators[i].level > 0
    /\ rotationAngles[i] + rotationSpeed(generators[i]) >= TwoPi

\* C7: each 2*Pi crossing of a generator with level > 0 adds exactly 0.01
\* to its manaMultiplier; generator 0 left at level 5 crosses once every
\* 120 advance() calls, so that after 1200 calls its manaMultiplier is 1.10.
C7_Revolutions ==
    /\ [][\A i \in Gens :
            generators'[i].manaMultiplier =
                generators[i].manaMultiplier + (IF Crossing(i) THEN 1 ELSE 0)]_vars
    /\ []((Pristine /\ BetweenUpdates) =>
            generators[0].manaMultiplier = One + ticks \div 120)

\* 1200 Updates without a purchase have returned
C7_Witness ==
    /\ Pristine /\ pc = "draw" /\ ticks = 1200
    /\ generators[0].manaMultiplier = One + 10

\* C8: every rotationAngle lies in [0, 2*Pi).
C8_AngleRange == \A i \in Gens : rotationAngles[i] >= 0 /\ rotationAngles[i] < TwoPi

\* an angle that overshot 2*Pi has been wrapped: the Mana Crystal at level
\* 99 or 100 turns by more than the angle it is left with
C8_Witness ==
    /\ pc = "draw"
    /\ generators[0].level >= 99
    /\ rotationAngles[0] > 0
    /\ rotationAngles[0] < rotationSpeed(generators[0])

\* C9: costs never decrease; advance() changes none, and purchase(i)
\* changes only cost[i], and only when it succeeds.
C9_CostMonotone ==
    [][\A i \in Gens :
          /\ generators'[i].cost >= generators[i].cost
          /\ generators'[i].cost # generators[i].cost =>
                PurchaseCall(i) /\ ~Ineligible(i)]_vars

\* the Arcane Tower was bought at cost 50.00: its cost is 60.00
C9_Witness ==
    /\ pc = "mana" /\ attempt = 1
    /\ generators[1].level = 1
    /\ generators[1].cost = 60 * One

\* the step is a whole purchase of generator i and nothing else
WholePurchase(i) ==
    /\ mana' = mana - generators[i].cost
    /\ generators'[i].level = generators[i].level + 1
    /\ generators'[i].cost > generators[i].cost
    /\ generators'[i].manaMultiplier = generators[i].manaMultiplier
    /\ \A j \in Gens \ {i} : generators'[j] = generators[j]
    /\ totalMultiplier' = calculateManaPerSec(generators')
    /\ UNCHANGED <<tickCounter, rotationAngles>>

\* C10: within one Update a purchase applies all of its changes (mana,
\* level, totalMultiplier, cost) in the input step, before the tick
\* accumulator, accrual and rotation of that tick, which leave levels and
\* costs alone; Draw paints only after an Update has returned and changes
\* nothing of the game.
C10_PurchaseAtomic ==
    [][/\ pc = "input" =>
            /\ pc' = "mana"
            /\ UNCHANGED game \/ \E i \in Gens : WholePurchase(i)
       /\ pc = "mana" =>
            /\ pc' = "rotate"
            /\ UNCHANGED <<generators, rotationAngles>>
       /\ pc = "rotate" =>
            /\ pc' = "draw"
            /\ UNCHANGED <<mana, tickCounter, totalMultiplier>>
            /\ \A i \in Gens :
                  /\ generators'[i].level = generators[i].level
                  /\ generators'[i].cost = generators[i].cost
       /\ pc = "draw" =>
            /\ pc' = "input"
            /\ UNCHANGED game
       /\ screen' # screen => pc = "draw"]_vars

\* a purchase is complete while the tick in which the second elapses has
\* not begun: the accumulator still reads 59
C10_Witness ==
    /\ pc = "mana" /\ attempt = 1
    /\ generators[1].level = 1
    /\ generators[1].cost > NewGenerators[1].cost
    /\ tickCounter = 59

\* this step is a call of Draw
DrawCall == pc \in {"draw", "input"} /\ pc' = "input"

\* C11: Draw changes nothing of the game (mana, generators, rotation
\* angles, tick accumulator, totalMultiplier), what it paints is what a
\* second read of the state it leaves would paint, and a frame drawn again
\* with no Update in between paints the same.
C11_DrawReadOnly ==
    [][DrawCall =>
          /\ UNCHANGED game
          /\ screen' = <<Render>>'
          /\ (pc = "input" => screen' = screen)]_vars

\* a frame has been painted while the cached total lags the multipliers
C11_Witness ==
    /\ pc = "input" /\ Pristine /\ ticks > 0
    /\ screen = <<Render>>
    /\ totalMultiplier # calculateManaPerSec(generators)

\* C12: advance() adds 1 to the tick accumulator; on the call where it
\* reaches 60 it is reset to 0, totalMultiplier is recomputed and that
\* value, the product of the manaMultipliers before this call's rotation
\* step, is added to mana once; on every other call mana is unchanged.  So
\* the accumulator is in 0..59 after every advance() and counts the calls
\* modulo 60.
C12_Accrual ==
    /\ [][/\ pc = "mana" =>
               IF tickCounter + 1 = 60
               THEN /\ tickCounter' = 0
                    /\ totalMultiplier' = calculateManaPerSec(generators)
                    /\ mana' = mana + calculateManaPerSec(generators)
               ELSE /\ tickCounter' = tickCounter + 1
                    /\ UNCHANGED <<mana, totalMultiplier>>
          /\ pc = "rotate" => UNCHANGED <<mana, tickCounter, totalMultiplier>>]_vars
    /\ [](BetweenUpdates => tickCounter \in 0 .. 59 /\ tickCounter = ticks % 60)

\* the third second has been credited at the recomputed 1.01, not the
\* 1.00 cached since the second
C12_Witness ==
    /\ Pristine /\ pc = "rotate" /\ ticks = 179
    /\ tickCounter = 0
    /\ mana = 3 * One + 1

\* this step belongs to advance(): the accrual or the rotation of a tick
AdvanceStep == pc \in {"mana", "rotate"}

\* C13: a generator at level 0 is inert: its rotationAngle is 0, its
\* manaMultiplier is 1.00, and advance() leaves both unchanged.
C13_LevelZeroInert ==
    /\ [](\A i \in Gens :
            generators[i].level = 0 =>
                rotationAngles[i] = 0 /\ generators[i].manaMultiplier = One)
    /\ [][\A i \in Gens :
            (AdvanceStep /\ generators[i].level = 0) =>
                /\ rotationAngles'[i] = rotationAngles[i]
                /\ generators'[i].manaMultiplier = generators[i].manaMultiplier]_vars

\* the Arcane Tower is still at level 0 after an Update in which the Mana
\* Crystal completed a rotation
C13_Witness ==
    /\ pc = "draw"
    /\ generators[1].level = 0
    /\ rotationAngles[0] < rotationSpeed(generators[0])
    /\ generators[0].manaMultiplier > One

\* C14: a manaMultiplier is at least 1.00, never decreases, and changes
\* only in advance(), by exactly +0.01, when its generator's angle crosses
\* 2*Pi; purchase(i), refused or not, leaves every manaMultiplier and every
\* rotationAngle unchanged.
C14_MultiplierGrowth ==
    /\ [](\A i \in Gens : generators[i].manaMultiplier >= One)
    /\ [][/\ \A i \in Gens :
               generators'[i].manaMultiplier # generators[i].manaMultiplier =>
                   /\ Crossing(i)
                   /\ generators'[i].manaMultiplier = generators[i].manaMultiplier + 1
          /\ pc = "input" =>
               /\ rotationAngles' = rotationAngles
               /\ \A i \in Gens :
                     generators'[i].manaMultiplier = generators[i].manaMultiplier]_vars

\* the Mana Crystal was levelled up in mid-turn, after it had earned a
\* multiplier: angle and multiplier are what they were
C14_Witness ==
    /\ pc = "mana" /\ attempt = 0
    /\ generators[0].level = 6
    /\ rotationAngles[0] > 0
    /\ generators[0].manaMultiplier > One

\* no point of the screen lies in two generators' areas
ZonesDisjoint ==
    \A i, j \in Gens :
        i # j =>
            \/ textX(i) + ZoneWidth < textX(j)
            \/ textX(j) + ZoneWidth < textX(i)
            \/ textY(i) + ZoneHeight < textY(j)
            \/ textY(j) + ZoneHeight < textY(i)

\* C15: purchases are edge-triggered and single-target: an Update attempts
\* a purchase only when the button goes from up to down, on at most one
\* generator (the areas are disjoint), and only that generator can change;
\* while the button stays down, and after a click outside every area,
\* nothing is attempted and nothing changes.
C15_EdgeTriggered ==
    [][pc = "input" =>
          /\ ZonesDisjoint
          /\ attempt' \in {-1} \cup Gens
          /\ (mouseDown \/ ~mouseDown') => attempt' = -1
          /\ attempt' = -1 => UNCHANGED game
          /\ \A i \in Gens : generators'[i] # generators[i] => attempt' = i]_vars

\* the button is down in a second Update running, the Arcane Tower bought
\* by the first is still affordable, and no purchase is attempted
C15_Witness ==
    /\ pc = "mana" /\ mouseDown /\ attempt = -1
    /\ ticks = LateGame.ticks + 1
    /\ generators[1].level = 1
    /\ mana >= generators[1].cost

\* C16: no advance() covers more than one revolution: a generator turns by
\* at most a sixth of a turn per tick (level <= 100, speedPerLevel <= 0.1),
\* and every rotation step accounts for the whole of it: the revolutions
\* credited to the manaMultiplier (0.01 each) and the change of the angle
\* add up to the angle turned, so no revolution goes uncounted.
C16_NoUndercount ==
    /\ [](\A i \in Gens : 6 * rotationSpeed(generators[i]) <= TwoPi)
    /\ [][\A i \in Gens :
            pc = "rotate" =>
                (generators'[i].manaMultiplier - generators[i].manaMultiplier) * TwoPi
                    + rotationAngles'[i] - rotationAngles[i]
                = rotationSpeed(generators[i])]_vars

\* the Mana Crystal at level 100, a sixth of a turn per tick, has
\* completed a rotation since the late-game state
C16_Witness ==
    /\ pc = "draw"
    /\ generators[0].level = MaxLevel
    /\ 6 * rotationSpeed(generators[0]) = TwoPi
    /\ generators[0].manaMultiplier > LateGame.generators[0].manaMultiplier

\* C17: the cached totalMultiplier never exceeds the product of the four
\* manaMultipliers; it equals the product when mana is credited at a
\* 60-tick boundary, the amount credited being that product, and right
\* after a successful purchase.
C17_CacheLags ==
    /\ [](totalMultiplier <= calculateManaPerSec(generators))
    /\ [][/\ (pc = "mana" /\ tickCounter + 1 = 60) =>
               /\ totalMultiplier' = calculateManaPerSec(generators')
               /\ mana' - mana = calculateManaPerSec(generators)
          /\ \A i \in Gens :
               (PurchaseCall(i) /\ ~Ineligible(i)) =>
                   totalMultiplier' = calculateManaPerSec(generators')]_vars

\* the purchase that opens the late game has brought the lagging total
\* (1584.56) up to the product (1584.66)
C17_Witness ==
    /\ pc = "mana" /\ attempt = 0
    /\ ticks = LateGame.ticks
    /\ generators[0].level = MaxLevel
    /\ totalMultiplier > LateGame.totalMultiplier
    /\ totalMultiplier = calculateManaPerSec(generators)

\* C18: totalMultiplier is at least 1.00 in every state, so that every
\* 60th advance() passes the totalMultiplier > 0 test and raises mana by at
\* least 1.00.
C18_TotalAtLeastOne ==
    /\ [](totalMultiplier >= One)
    /\ [][(pc = "mana" /\ tickCounter + 1 = 60) => mana' >= mana + One]_vars

\* the first second has been credited
C18_Witness ==
    /\ Pristine /\ pc = "rotate" /\ ticks = 59
    /\ tickCounter = 0
    /\ mana = One

\* C19: while Update keeps being called and the player has stopped buying,
\* mana reaches the cost of every producer below level 100 and from then on
\* covers all of them; a producer that mana covers stays covered by every
\* step in which no level changes.
Covered(i) == generators[i].level < MaxLevel => mana >= generators[i].cost

C19_EventuallyEligible ==
    /\ <>[](\A i \in Gens : Covered(i))
    /\ [][\A i \in Gens :
            (/\ mana >= generators[i].cost
             /\ \A j \in Gens : generators'[j].level = generators[j].level)
                => mana' >= generators'[i].cost]_vars

\* mana has grown from 0 to the cost of the last producer
C19_Witness ==
    /\ Pristine /\ BetweenUpdates
    /\ ticks > LivePlayTicks
    /\ mana >= generators[3].cost

============================================================================
